---- MODULE Spec2Model ----
(***************************************************************************)
(* Model of the PDF download proxy (src/app.py): the two Flask route       *)
(* handlers docs_page (GET /docs/<token>) and fetch_pdf (GET              *)
(* /fetch/<token>), the Supabase tables they read and append to, and the   *)
(* upstream storage GET.  Each handler is modelled statement group by      *)
(* statement group, with a program counter for the invocation in flight.   *)
(* The handlers keep no state of their own between requests (only the      *)
(* tables do), so requests are taken one at a time.                        *)
(***************************************************************************)
EXTENDS Integers, Sequences, FiniteSets, TLC

VARIABLES
    pdf_links,      \* table pdf_links: a set of rows (read only)
    pdf_views,      \* table pdf_views: the rows inserted, in order
    pdf_downloads,  \* table pdf_downloads: the rows inserted, in order
    now,            \* datetime.now(timezone.utc), in whole time units
    req,            \* the handler invocation in flight, or the last one finished
    started,        \* number of requests received so far
    served          \* number of fetch_pdf invocations that answered 200

vars == <<pdf_links, pdf_views, pdf_downloads, now, req, started, served>>

----------------------------------------------------------------------------
(* Bounds of the model *)

MaxRequests == 2    \* requests received in one behaviour
MaxTime == 2        \* the clock runs over 0..MaxTime
MaxUAOver == 1      \* User-Agent headers exceed the limit by up to this much

(* Program constant: the slice bound of the stored user agent. *)
UA_MAX == 500

----------------------------------------------------------------------------
(* Python values *)

MISSING == "<missing>"  \* a key that is not in the dict / a header not sent
NULL == "<None>"        \* Python None, JSON null

\* dict.get(key): None when the key is absent
Get(info, key) == IF info[key] = MISSING THEN NULL ELSE info[key]

\* dict.get(key, default): the default only when the key is absent
GetDefault(info, key, default) == IF info[key] = MISSING THEN default ELSE info[key]

\* bool(v) for the values of a row: None and "" are falsy
Truthy(v) == v # NULL /\ v # ""

\* f"{v}": None formats as "None"
Format(v) == IF v = NULL THEN "None" ELSE v

----------------------------------------------------------------------------
(* Timestamps: an ISO-8601 text is a wall-clock reading and a zone         *)
(* designator; one time unit is one hour, so "+01:00" is one unit.         *)

\* s.replace("Z", "+00:00")
ReplaceZ(ts) == [ts EXCEPT !.zone = IF @ = "Z" THEN "+00:00" ELSE @]

\* datetime.fromisoformat of a text with a numeric offset: the UTC instant
FromIsoFormat(ts) ==
    CASE ts.zone = "+00:00" -> ts.wall
      [] ts.zone = "+01:00" -> ts.wall - 1

ParseExpires(info) == FromIsoFormat(ReplaceZ(info["expires_at"]))

\* the comparison written >=: a link is dead from its expiry instant on
IsExpiredInclusive(t, expires) == t >= expires

\* datetime.now(timezone.utc) > expires
IsExpired(t, expires) == t > expires

\* datetime.now(timezone.utc).isoformat()
IsoFormat(t) == [wall |-> t, zone |-> "+00:00"]

----------------------------------------------------------------------------
(* Request inputs *)

Tokens == {"tokA", "tokB"}

\* the characters lo..hi of a header whose odd characters are "a" and even "b"
RECURSIVE UAChars(_, _)
UAChars(lo, hi) ==
    IF lo > hi THEN ""
    ELSE IF lo = hi THEN (IF lo % 2 = 1 THEN "a" ELSE "b")
    ELSE UAChars(lo, (lo + hi) \div 2) \o UAChars((lo + hi) \div 2 + 1, hi)

UAString(n) == UAChars(1, n)

LongUserAgents == {UAString(UA_MAX + d) : d \in 0..MaxUAOver}

ForwardedFor == "203.0.113.7"

RemoteAddr == "10.0.0.1"

\* a client that sends no User-Agent, a proxied client with a short one,
\* and clients with one at and over the limit
Headers ==
    { [ua |-> MISSING, xff |-> MISSING],
      [ua |-> "curl/8.0", xff |-> ForwardedFor] }
    \cup [ua : LongUserAgents, xff : {MISSING}]

UpstreamStatuses == {200, 404, 503}

Bodies == {"%PDF-1", "%PDF-2"}

----------------------------------------------------------------------------
(* The pdf_links table *)

Expiries ==
    { [wall |-> MaxTime - 1, zone |-> "Z"],
      [wall |-> MaxTime - 1, zone |-> "+00:00"],
      [wall |-> MaxTime,     zone |-> "+01:00"] }

\* a row with every optional column set
FullRow ==
    [ token |-> "tokA",
      pdf_path |-> "deals/a.pdf",
      expires_at |-> [wall |-> MaxTime - 1, zone |-> "+00:00"],
      filename |-> "offer.pdf",
      lender_name |-> "Acme",
      deal_id |-> "deal-1",
      tracking_id |-> "trk-1",
      recipient_email |-> "r@x.io" ]

\* the rows the table may hold: every spelling of the expiry, a null
\* recipient, the filename unset in each way, and with the filename unset
\* the lender name unset in each way
LinkRows ==
    {[FullRow EXCEPT !.expires_at = e] : e \in Expiries}
    \cup {[FullRow EXCEPT !.recipient_email = NULL]}
    \cup {[FullRow EXCEPT !.filename = f] : f \in {MISSING, NULL, ""}}
    \cup {[FullRow EXCEPT !.filename = NULL, !.lender_name = l] :
              l \in {MISSING, NULL, ""}}

LinkTables == {{r} : r \in LinkRows}

\* sb.table("pdf_links").select("*").eq("token", token).execute().data
SelectByToken(table, token) ==
    LET hit == {r \in table : r.token = token}
    IN  IF hit = {} THEN <<>> ELSE <<CHOOSE r \in hit : TRUE>>

----------------------------------------------------------------------------
(* Event payloads *)

\* request.headers.get("X-Forwarded-For", request.remote_addr)
ClientIp(headers) == IF headers.xff = MISSING THEN RemoteAddr ELSE headers.xff

\* s[:n]
Slice(s, n) == IF Len(s) <= n THEN s ELSE SubSeq(s, 1, n)

\* the header stored whole, without the slice
UserAgentFieldUncut(headers) == IF headers.ua = MISSING THEN "" ELSE headers.ua

\* request.headers.get("User-Agent", "")[:500]
UserAgentField(headers) ==
    Slice(IF headers.ua = MISSING THEN "" ELSE headers.ua, UA_MAX)

\* the view payload with the lender taken from the wrong column
ViewRowWrongLender(token, info, headers, t) ==
    [ token |-> token,
      tracking_id |-> Get(info, "tracking_id"),
      deal_id |-> Get(info, "deal_id"),
      lender_name |-> Get(info, "deal_id"),
      recipient_email |-> Get(info, "recipient_email"),
      ip |-> ClientIp(headers),
      user_agent |-> UserAgentField(headers),
      viewed_at |-> IsoFormat(t) ]

ViewRow(token, info, headers, t) ==
    [ token |-> token,
      tracking_id |-> Get(info, "tracking_id"),
      deal_id |-> Get(info, "deal_id"),
      lender_name |-> Get(info, "lender_name"),
      recipient_email |-> Get(info, "recipient_email"),
      ip |-> ClientIp(headers),
      user_agent |-> UserAgentField(headers),
      viewed_at |-> IsoFormat(t) ]

DownloadRow(token, info, headers, t) ==
    [ token |-> token,
      tracking_id |-> Get(info, "tracking_id"),
      deal_id |-> Get(info, "deal_id"),
      lender_name |-> Get(info, "lender_name"),
      recipient_email |-> Get(info, "recipient_email"),
      ip |-> ClientIp(headers),
      user_agent |-> UserAgentField(headers),
      downloaded_at |-> IsoFormat(t) ]

\* an insert that is sent twice
InsertTwice(table, row) == Append(Append(table, row), row)

\* .insert(row).execute() when it succeeds
Insert(table, row) == Append(table, row)

----------------------------------------------------------------------------
(* Responses *)

NoResponse == [status |-> 0, kind |-> "none"]

TextResponse(text, status) == [status |-> status, kind |-> "text", text |-> text]

\* an unhandled exception or abort(500): Flask's InternalServerError page
ErrorResponse(status) == [status |-> status, kind |-> "error"]

\* render_template("docs.html", token=token, lender=info.get("lender_name", ""))
RenderDocs(token, info) ==
    [ status |-> 200, kind |-> "page", template |-> "docs.html",
      token |-> token, lender |-> GetDefault(info, "lender_name", "") ]

\* info.get("filename") or f"{info.get('lender_name', 'document')}.pdf"
DownloadName(info) ==
    IF Truthy(Get(info, "filename"))
    THEN Get(info, "filename")
    ELSE Format(GetDefault(info, "lender_name", "document")) \o ".pdf"

\* send_file(BytesIO(pdf_bytes), mimetype=..., as_attachment=True, download_name=...)
SendFile(pdf_bytes, filename) ==
    [ status |-> 200, kind |-> "file", mimetype |-> "application/pdf",
      as_attachment |-> TRUE, download_name |-> filename, body |-> pdf_bytes ]

----------------------------------------------------------------------------
(* The invocation.  steps lists the statement groups it completed,         *)
(* appended counts the rows it inserted, checked_at is the clock reading   *)
(* its expiry check used (-1 before the check), log_failed says its event  *)
(* insert raised, raised names the statement group whose exception left    *)
(* the straight-line path ("" when none did).                              *)

Idle ==
    [ route |-> "", pc |-> "idle", token |-> "",
      headers |-> [ua |-> MISSING, xff |-> MISSING],
      data |-> <<>>, upstream |-> 0, pdf_bytes |-> "", resp |-> NoResponse,
      appended |-> 0, steps |-> <<>>, checked_at |-> -1, log_failed |-> FALSE,
      raised |-> "" ]

Received(route, token, headers) ==
    [Idle EXCEPT !.route = route, !.pc = "lookup", !.token = token, !.headers = headers]

Finished(r, resp) == [r EXCEPT !.pc = "done", !.resp = resp]

Step(r, name) == [r EXCEPT !.steps = Append(@, name)]

Raise(r, what, pc) == [r EXCEPT !.pc = pc, !.raised = what]

Init ==
    /\ pdf_links \in LinkTables
    /\ pdf_views = <<>>
    /\ pdf_downloads = <<>>
    /\ now = 0
    /\ req = Idle
    /\ started = 0
    /\ served = 0

\* the wall clock advances
Tick ==
    /\ now < MaxTime
    /\ now' = now + 1
    /\ UNCHANGED <<pdf_links, pdf_views, pdf_downloads, req, started, served>>

----------------------------------------------------------------------------
(* docs_page *)

\* the view insert without its try/except: a failed insert leaves the handler
DocsAfterLogUncaught(ok) == IF ok THEN "render" ELSE "raise"

\* the view insert sits in try/except Exception: the handler goes on to
\* render whether or not the insert raised
DocsAfterLog(ok) == "render"

DocsReceive(token, headers) ==
    /\ req.pc \in {"idle", "done"}
    /\ started < MaxRequests
    /\ started' = started + 1
    /\ req' = Received("docs", token, headers)
    /\ UNCHANGED <<pdf_links, pdf_views, pdf_downloads, now, served>>

\* result = sb.table("pdf_links")...execute(); if not result.data: 404
DocsLookup(query_ok) ==
    /\ req.route = "docs" /\ req.pc = "lookup"
    /\ IF ~query_ok
       THEN req' = Raise(req, "lookup", "raise")
       ELSE LET data == SelectByToken(pdf_links, req.token)
                r == Step([req EXCEPT !.data = data], "lookup")
            IN  IF Len(data) = 0
                THEN req' = Finished(r, TextResponse("Invalid link.", 404))
                ELSE req' = [r EXCEPT !.pc = "expiry"]
    /\ UNCHANGED <<pdf_links, pdf_views, pdf_downloads, now, started, served>>

\* expires = fromisoformat(...); if now > expires: 410
DocsExpiry ==
    /\ req.route = "docs" /\ req.pc = "expiry"
    /\ LET r == [req EXCEPT !.checked_at = now]
       IN  IF IsExpired(now, ParseExpires(req.data[1]))
           THEN req' = Finished(r, TextResponse("Link expired.", 410))
           ELSE req' = [Step(r, "expiry") EXCEPT !.pc = "log"]
    /\ UNCHANGED <<pdf_links, pdf_views, pdf_downloads, now, started, served>>

\* try: sb.table("pdf_views").insert({...}).execute()  except Exception: warn
DocsLogView(insert_ok) ==
    /\ req.route = "docs" /\ req.pc = "log"
    /\ IF insert_ok
       THEN /\ pdf_views' = Insert(pdf_views,
                                   ViewRow(req.token, req.data[1], req.headers, now))
            /\ req' = [Step(req, "log") EXCEPT
                          !.pc = DocsAfterLog(TRUE),
                          !.appended = Len(pdf_views') - Len(pdf_views)]
       ELSE /\ pdf_views' = pdf_views
            /\ req' = [req EXCEPT !.pc = DocsAfterLog(FALSE), !.log_failed = TRUE]
    /\ UNCHANGED <<pdf_links, pdf_downloads, now, started, served>>

\* return render_template("docs.html", ...)
DocsRender(render_ok) ==
    /\ req.route = "docs" /\ req.pc = "render"
    /\ IF render_ok
       THEN req' = Finished(Step(req, "render"), RenderDocs(req.token, req.data[1]))
       ELSE req' = Raise(req, "render", "raise")
    /\ UNCHANGED <<pdf_links, pdf_views, pdf_downloads, now, started, served>>

\* an exception leaves docs_page: Flask answers 500
DocsUnhandled ==
    /\ req.route = "docs" /\ req.pc = "raise"
    /\ req' = Finished(req, ErrorResponse(500))
    /\ UNCHANGED <<pdf_links, pdf_views, pdf_downloads, now, started, served>>

----------------------------------------------------------------------------
(* fetch_pdf *)

\* the download logged before the file is fetched
FetchNextPcLogFirst(pc) ==
    CASE pc = "lookup"   -> "expiry"
      [] pc = "expiry"   -> "log"
      [] pc = "log"      -> "upstream"
      [] pc = "upstream" -> "serve"

\* the order of the statement groups inside the try block
FetchNextPc(pc) ==
    CASE pc = "lookup"   -> "expiry"
      [] pc = "expiry"   -> "upstream"
      [] pc = "upstream" -> "log"
      [] pc = "log"      -> "serve"

\* the download insert made best-effort, as the view insert is
FetchOnRaiseLogIgnored(pc) == IF pc = "log" THEN FetchNextPc(pc) ELSE "except"

\* every statement group is inside try ... except Exception
FetchOnRaise(pc) == "except"

\* only server errors of the storage treated as failures
UpstreamOkBelow500(status) == status < 500

\* if pdf_response.status_code != 200: abort(500)
UpstreamOk(status) == status = 200

FetchReceive(token, headers) ==
    /\ req.pc \in {"idle", "done"}
    /\ started < MaxRequests
    /\ started' = started + 1
    /\ req' = Received("fetch", token, headers)
    /\ UNCHANGED <<pdf_links, pdf_views, pdf_downloads, now, served>>

\* result = ...execute(); if not result.data: abort(404)
\* abort raises werkzeug's NotFound, an Exception, inside the try block
FetchLookup(query_ok) ==
    /\ req.route = "fetch" /\ req.pc = "lookup"
    /\ IF ~query_ok
       THEN req' = Raise(req, "lookup", FetchOnRaise("lookup"))
       ELSE LET data == SelectByToken(pdf_links, req.token)
                r == Step([req EXCEPT !.data = data], "lookup")
            IN  IF Len(data) = 0
                THEN req' = Raise(r, "abort404", FetchOnRaise("lookup"))
                ELSE req' = [r EXCEPT !.pc = FetchNextPc("lookup")]
    /\ UNCHANGED <<pdf_links, pdf_views, pdf_downloads, now, started, served>>

\* expires = fromisoformat(...); if now > expires: return "Link expired", 403
FetchExpiry ==
    /\ req.route = "fetch" /\ req.pc = "expiry"
    /\ LET r == [req EXCEPT !.checked_at = now]
       IN  IF IsExpired(now, ParseExpires(req.data[1]))
           THEN req' = Finished(r, TextResponse("Link expired", 403))
           ELSE req' = [Step(r, "expiry") EXCEPT !.pc = FetchNextPc("expiry")]
    /\ UNCHANGED <<pdf_links, pdf_views, pdf_downloads, now, started, served>>

\* pdf_response = requests.get(public_url); non-200: abort(500)
\* status 0 stands for requests.get raising (no response at all)
FetchUpstream(status, content) ==
    /\ req.route = "fetch" /\ req.pc = "upstream"
    /\ IF status = 0
       THEN req' = Raise(req, "upstream", FetchOnRaise("upstream"))
       ELSE LET r == [req EXCEPT !.upstream = status, !.pdf_bytes = content]
            IN  IF UpstreamOk(status)
                THEN req' = [Step(r, "upstream") EXCEPT !.pc = FetchNextPc("upstream")]
                ELSE req' = Raise(r, "abort500", FetchOnRaise("upstream"))
    /\ UNCHANGED <<pdf_links, pdf_views, pdf_downloads, now, started, served>>

\* sb.table("pdf_downloads").insert({...}).execute()
FetchLogDownload(insert_ok) ==
    /\ req.route = "fetch" /\ req.pc = "log"
    /\ IF insert_ok
       THEN /\ pdf_downloads' = Insert(pdf_downloads,
                                       DownloadRow(req.token, req.data[1], req.headers, now))
            /\ req' = [Step(req, "log") EXCEPT
                          !.pc = FetchNextPc("log"),
                          !.appended = Len(pdf_downloads') - Len(pdf_downloads)]
       ELSE /\ pdf_downloads' = pdf_downloads
            /\ req' = [Raise(req, "log", FetchOnRaise("log")) EXCEPT !.log_failed = TRUE]
    /\ UNCHANGED <<pdf_links, pdf_views, now, started, served>>

\* filename = ...; return send_file(...)
FetchServe ==
    /\ req.route = "fetch" /\ req.pc = "serve"
    /\ req' = Finished(Step(req, "serve"),
                       SendFile(req.pdf_bytes, DownloadName(req.data[1])))
    /\ served' = served + 1
    /\ UNCHANGED <<pdf_links, pdf_views, pdf_downloads, now, started>>

\* except Exception as e: log.exception(...); abort(500)
FetchExcept ==
    /\ req.route = "fetch" /\ req.pc = "except"
    /\ req' = Finished(req, ErrorResponse(500))
    /\ UNCHANGED <<pdf_links, pdf_views, pdf_downloads, now, started, served>>

----------------------------------------------------------------------------

Next ==
    \/ Tick
    \/ \E t \in Tokens, h \in Headers : DocsReceive(t, h)
    \/ \E ok \in BOOLEAN : DocsLookup(ok)
    \/ DocsExpiry
    \/ \E ok \in BOOLEAN : DocsLogView(ok)
    \/ \E ok \in BOOLEAN : DocsRender(ok)
    \/ DocsUnhandled
    \/ \E t \in Tokens, h \in Headers : FetchReceive(t, h)
    \/ \E ok \in BOOLEAN : FetchLookup(ok)
    \/ FetchExpiry
    \/ \E s \in UpstreamStatuses \cup {0}, b \in Bodies : FetchUpstream(s, b)
    \/ \E ok \in BOOLEAN : FetchLogDownload(ok)
    \/ FetchServe
    \/ FetchExcept

Spec == Init /\ [][Next]_vars

----------------------------------------------------------------------------
(* Vocabulary of the properties *)

Done(route) == req.route = route /\ req.pc = "done"

\* the invocation's lookup returned without raising
LookedUp == Len(req.steps) >= 1 /\ req.steps[1] = "lookup"

\* the pdf_links row of the requested token
Record == CHOOSE r \in pdf_links : r.token = req.token

\* the UTC instant an expiry text denotes
UtcInstant(ts) ==
    ts.wall - (CASE ts.zone = "Z" -> 0 [] ts.zone = "+00:00" -> 0 [] ts.zone = "+01:00" -> 1)

\* a field is set when it is present, not null and not empty
IsSet(v) == v \notin {MISSING, NULL, ""}

\* a column of the record as an event row stores it: absent reads as null
Stored(v) == IF v = MISSING THEN NULL ELSE v

\* the row this invocation appended, when it appended one
LastView == pdf_views[Len(pdf_views)]
LastDownload == pdf_downloads[Len(pdf_downloads)]

InOrder(steps, order) ==
    /\ Len(steps) <= Len(order)
    /\ \A i \in 1..Len(steps) : steps[i] = order[i]

----------------------------------------------------------------------------
(* C1: a token with no row in pdf_links (the query succeeds and returns no *)
(* row) gets 404 from /docs/{token} and 404 from /fetch/{token}.           *)
C1_UnknownToken404 ==
    (req.pc = "done" /\ LookedUp /\ Len(req.data) = 0) => req.resp.status = 404

(* C2: a record whose expiry is strictly before the clock reading of the   *)
(* expiry check gets 410 from /docs and 403 from /fetch; a record whose    *)
(* expiry is at or after that reading (equal included) is not answered as  *)
(* expired and the handler goes on past the check.                         *)
C2_ExpiryOutcome ==
    req.checked_at >= 0 =>
        LET expiry == UtcInstant(Record.expires_at)
        IN  /\ expiry < req.checked_at =>
                /\ req.pc = "done"
                /\ req.resp.status = (IF req.route = "docs" THEN 410 ELSE 403)
            /\ expiry >= req.checked_at =>
                /\ Len(req.steps) >= 2 /\ req.steps[2] = "expiry"
                /\ req.resp.status \notin {410, 403}

\* a fetch checked at the very instant of expiry went on
C2_Witness ==
    /\ req.route = "fetch"
    /\ req.pc = "upstream"
    /\ req.checked_at = UtcInstant(Record.expires_at)

(* C3: a fetch for a valid, unexpired record whose upstream GET returned   *)
(* 200 and whose download insert succeeded answers 200, application/pdf,   *)
(* as an attachment named: the record's filename if set, else the lender   *)
(* name followed by ".pdf" if set, else "document.pdf" (absent, null and   *)
(* empty all count as not set).                                            *)
C3_AttachmentName ==
    (Done("fetch") /\ req.upstream = 200 /\ ~req.log_failed /\ req.raised = "") =>
        /\ req.resp.status = 200
        /\ req.resp.kind = "file"
        /\ req.resp.mimetype = "application/pdf"
        /\ req.resp.as_attachment
        /\ req.resp.download_name =
              (IF IsSet(Record.filename) THEN Record.filename
               ELSE IF IsSet(Record.lender_name) THEN Record.lender_name \o ".pdf"
               ELSE "document.pdf")

(* C4: a fetch that answers 200 appended exactly one pdf_downloads row     *)
(* during the invocation and its body is the body of the invocation's      *)
(* upstream GET; between invocations the number of pdf_downloads rows      *)
(* equals the number of fetches that answered 200.                         *)
C4_OneRowAndSameBody ==
    /\ (Done("fetch") /\ req.resp.status = 200) =>
          /\ req.appended = 1
          /\ req.resp.body = req.pdf_bytes
    /\ req.pc \in {"idle", "done"} => Len(pdf_downloads) = served

\* the second successful fetch of a behaviour
C4_Witness ==
    /\ Done("fetch") /\ req.resp.status = 200
    /\ served = 2 /\ Len(pdf_downloads) = 2

(* C5: for a valid, unexpired record, an upstream GET that returns a       *)
(* status other than 200 makes the fetch answer 500 and append no          *)
(* pdf_downloads row.                                                      *)
C5_UpstreamFailure ==
    (req.route = "fetch" /\ req.upstream \notin {0, 200}) =>
        /\ req.appended = 0
        /\ req.pc \in {"except", "done"}
        /\ req.pc = "done" => req.resp.status = 500

C5_Witness ==
    /\ Done("fetch") /\ req.upstream = 503
    /\ req.resp.status = 500 /\ req.appended = 0

(* C6, as stated: a docs invocation that returns the landing page appended *)
(* exactly one pdf_views row, carrying the requested token and the         *)
(* record's lender name and recipient email.                               *)
C6_PageImpliesOneView ==
    (Done("docs") /\ req.resp.kind = "page") =>
        /\ req.appended = 1
        /\ LastView.token = req.token
        /\ LastView.lender_name = Stored(Record.lender_name)
        /\ LastView.recipient_email = Stored(Record.recipient_email)

(* C6, amended: a docs invocation that returns the landing page appended   *)
(* exactly one pdf_views row, carrying the requested token and the         *)
(* record's lender name and recipient email, when its view insert          *)
(* succeeded, and appended no row when the insert raised.                  *)
C6_PageViewUnlessInsertFailed ==
    (Done("docs") /\ req.resp.kind = "page") =>
        IF req.log_failed
        THEN req.appended = 0
        ELSE /\ req.appended = 1
             /\ LastView.token = req.token
             /\ LastView.lender_name = Stored(Record.lender_name)
             /\ LastView.recipient_email = Stored(Record.recipient_email)

C6_Witness ==
    /\ Done("docs") /\ req.resp.kind = "page"
    /\ ~req.log_failed /\ req.appended = 1
    /\ LastView.lender_name = "Acme"

(* C7: for a valid, unexpired record a failed view insert does not change  *)
(* the outcome of /docs: the handler goes on to render, and unless the     *)
(* render itself raises it answers 200 with the landing page showing the   *)
(* token and the lender name; the failed insert never yields a 500.        *)
C7_ViewLogFailureHarmless ==
    (req.route = "docs" /\ req.log_failed) =>
        \/ req.raised = "render"
        \/ /\ req.raised = ""
           /\ req.pc \in {"render", "done"}
           /\ req.pc = "done" =>
                /\ req.resp.status = 200
                /\ req.resp.kind = "page"
                /\ req.resp.token = req.token
                /\ req.resp.lender =
                      (IF Record.lender_name = MISSING THEN "" ELSE Record.lender_name)

C7_Witness ==
    /\ Done("docs") /\ req.log_failed
    /\ req.resp.status = 200 /\ req.appended = 0

(* C8: when the download insert raises after a 200 from upstream, the      *)
(* fetch answers 500 and delivers no file; every exception raised inside   *)
(* fetch_pdf, other than the not-found and expired outcomes, ends in 500.  *)
C8_FetchErrorsAre500 ==
    /\ (req.route = "fetch" /\ req.log_failed) =>
          /\ req.pc \in {"except", "done"}
          /\ req.pc = "done" => (req.resp.status = 500 /\ req.resp.kind # "file")
    /\ (Done("fetch") /\ req.raised \notin {"", "abort404"}) => req.resp.status = 500

C8_Witness ==
    /\ Done("fetch") /\ req.log_failed /\ req.upstream = 200
    /\ req.resp.status = 500

(* C9: the user_agent of an appended view or download row is the request's *)
(* User-Agent header cut to its first 500 characters: the header itself    *)
(* when it has at most 500 characters, its first 500 when it is longer,    *)
(* and the empty string when the header is absent.                         *)
C9_UserAgentCut ==
    req.appended >= 1 =>
        LET row == IF req.route = "docs" THEN LastView ELSE LastDownload
            ua == req.headers.ua
        IN  IF ua = MISSING THEN row.user_agent = ""
            ELSE IF Len(ua) <= 500 THEN row.user_agent = ua
            ELSE /\ Len(row.user_agent) = 500
                 /\ row.user_agent = SubSeq(ua, 1, 500)

C9_Witness ==
    /\ req.route = "fetch"
    /\ req.appended = 1
    /\ req.headers.ua # MISSING /\ Len(req.headers.ua) > 500
    /\ Len(LastDownload.user_agent) = 500

(* C10: fetch_pdf runs lookup, expiry check, upstream fetch, download      *)
(* insert, response in that order: a row is appended only after the token  *)
(* resolved to a record, the record was found unexpired and upstream       *)
(* returned 200; the file is answered only after the insert completed;     *)
(* invocations ending in not-found, expired or upstream failure append no  *)
(* row.                                                                    *)
C10_FetchOrder ==
    req.route = "fetch" =>
        /\ InOrder(req.steps, <<"lookup", "expiry", "upstream", "log", "serve">>)
        /\ req.appended >= 1 =>
              /\ Len(req.data) = 1
              /\ req.checked_at >= 0
              /\ req.checked_at <= UtcInstant(Record.expires_at)
              /\ req.upstream = 200
        /\ req.resp.kind = "file" =>
              (Len(req.steps) = 5 /\ req.steps[4] = "log" /\ req.appended = 1)
        /\ ( \/ (LookedUp /\ Len(req.data) = 0)
             \/ req.resp.status = 403
             \/ req.upstream \notin {0, 200}
             \/ req.raised = "upstream" ) => req.appended = 0

C10_Witness ==
    /\ Done("fetch") /\ req.resp.kind = "file"
    /\ req.steps = <<"lookup", "expiry", "upstream", "log", "serve">>

====
